---- MODULE Spec2Model ----
(***************************************************************************)
(* Model of the status-code example server: the dispatcher (onRequest and  *)
(* the urlStruct route table), the JSON handlers (success, badRequest,     *)
(* notFound) and the response writer (respondJSON).                        *)
(*                                                                         *)
(* A request URL is kept in parsed-out pieces (path segments, query        *)
(* pieces) so that the URL parser can be modelled by what it does: a URL   *)
(* with segments <<s1, .., sn>> is the text "/s1/../sn".  JavaScript       *)
(* strings that reach JSON.stringify are sequences of chunks: a chunk is   *)
(* either a run of plain ASCII text that needs no escaping (cp = 0) or one *)
(* code point cp (a lone surrogate is a code point of its own).            *)
(***************************************************************************)
EXTENDS Integers, Sequences, FiniteSets, TLC

VARIABLES
    urlStruct,  \* the route table object: path key -> handler name
    crashed,    \* TRUE once an exception escaped onRequest (the process dies)
    last,       \* the most recent request/response exchange
    twin,       \* what the exchange before it sent, kept when it had the same path and query
    call        \* a direct call of respondJSON (specification SpecWriter)

vars == <<urlStruct, crashed, last, twin, call>>

----------------------------------------------------------------------------
(* Bounds of the model *)

MaxSegs == 2
MaxPairs == 2
MaxChunks == 2

----------------------------------------------------------------------------
(* JavaScript strings as chunk sequences *)

Txt(s) == <<[ascii |-> s, cp |-> 0]>>
Chr(c) == <<[ascii |-> "", cp |-> c]>>

HexDigits ==
    <<"0", "1", "2", "3", "4", "5", "6", "7", "8", "9", "a", "b", "c", "d", "e", "f">>

Hex4(n) ==
    HexDigits[((n \div 4096) % 16) + 1] \o HexDigits[((n \div 256) % 16) + 1]
        \o HexDigits[((n \div 16) % 16) + 1] \o HexDigits[(n % 16) + 1]

IsSurrogate(c) == c >= 55296 /\ c <= 57343

\* JSON.stringify's QuoteJSONString, one chunk at a time
EscapeChunk(ch) ==
    IF ch.cp = 0 THEN <<ch>>
    ELSE IF ch.cp = 34 THEN Txt("\\\"")
    ELSE IF ch.cp = 92 THEN Txt("\\\\")
    ELSE IF ch.cp = 8 THEN Txt("\\b")
    ELSE IF ch.cp = 9 THEN Txt("\\t")
    ELSE IF ch.cp = 10 THEN Txt("\\n")
    ELSE IF ch.cp = 12 THEN Txt("\\f")
    ELSE IF ch.cp = 13 THEN Txt("\\r")
    ELSE IF ch.cp < 32 \/ IsSurrogate(ch.cp) THEN Txt("\\u" \o Hex4(ch.cp))
    ELSE <<ch>>

RECURSIVE Escape(_)
Escape(str) ==
    IF str = <<>> THEN <<>> ELSE EscapeChunk(Head(str)) \o Escape(Tail(str))

Quote(str) == Txt("\"") \o Escape(str) \o Txt("\"")

\* property order of the payload objects the handlers build
KeyOrder == <<"message", "id">>

RECURSIVE Members(_, _, _)
Members(object, keys, first) ==
    IF keys = <<>> THEN <<>>
    ELSE IF Head(keys) \in DOMAIN object
         THEN (IF first THEN <<>> ELSE Txt(","))
                  \o Txt("\"" \o Head(keys) \o "\":") \o Quote(object[Head(keys)])
                  \o Members(object, Tail(keys), FALSE)
         ELSE Members(object, Tail(keys), first)

JSONstringify(object) == Txt("{") \o Members(object, KeyOrder, TRUE) \o Txt("}")

\* String.prototype.length: UTF-16 code units
RECURSIVE StringLength(_)
StringLength(str) ==
    IF str = <<>> THEN 0
    ELSE (IF Head(str).cp = 0 THEN Len(Head(str).ascii)
          ELSE IF Head(str).cp >= 65536 THEN 2 ELSE 1) + StringLength(Tail(str))

ByteLength_chars(str) == StringLength(str)

\* Buffer.byteLength(content, 'utf8')
RECURSIVE ByteLength(_)
ByteLength(str) ==
    IF str = <<>> THEN 0
    ELSE (IF Head(str).cp = 0 THEN Len(Head(str).ascii)
          ELSE IF Head(str).cp < 128 THEN 1
          ELSE IF Head(str).cp < 2048 THEN 2
          ELSE IF Head(str).cp < 65536 THEN 3
          ELSE 4) + ByteLength(Tail(str))

\* the UTF-8 encoding response.write applies to a string chunk
Utf8Bytes(c) ==
    IF c < 128 THEN <<c>>
    ELSE IF c < 2048 THEN <<192 + (c \div 64), 128 + (c % 64)>>
    ELSE IF IsSurrogate(c) THEN <<239, 191, 189>>
    ELSE IF c < 65536
         THEN <<224 + (c \div 4096), 128 + ((c \div 64) % 64), 128 + (c % 64)>>
    ELSE <<240 + (c \div 262144), 128 + ((c \div 4096) % 64),
           128 + ((c \div 64) % 64), 128 + (c % 64)>>

RECURSIVE Utf8Encode(_)
Utf8Encode(str) ==
    IF str = <<>> THEN <<>>
    ELSE <<[ascii |-> Head(str).ascii,
            bytes |-> IF Head(str).cp = 0 THEN <<>> ELSE Utf8Bytes(Head(str).cp)]>>
         \o Utf8Encode(Tail(str))

\* number of bytes of an encoded body on the wire
RECURSIVE WireLength(_)
WireLength(body) ==
    IF body = <<>> THEN 0
    ELSE Len(Head(body).ascii) + Len(Head(body).bytes) + WireLength(Tail(body))

----------------------------------------------------------------------------
(* The response object handed to the handlers (http.ServerResponse).  Each  *)
(* call on it is logged with the function that was running (frame).        *)

NoHeaders == [h \in {} |-> ""]

NewResponse ==
    [frame |-> "onRequest", calls |-> <<>>, statusCode |-> 0,
     headers |-> NoHeaders, body |-> <<>>, finished |-> FALSE]

Logged(response, op) == Append(response.calls, [op |-> op, by |-> response.frame])

writeHead(response, status, headers) ==
    [response EXCEPT !.calls = Logged(response, "writeHead"),
                     !.statusCode = status,
                     !.headers = headers]

write(response, content) ==
    [response EXCEPT !.calls = Logged(response, "write"),
                     !.body = @ \o Utf8Encode(content)]

end(response) ==
    [response EXCEPT !.calls = Logged(response, "end"), !.finished = TRUE]

\* respondJSON: stringify, writeHead with type and length, write, end
respondJSON(request, response, status, object) ==
    LET content == JSONstringify(object)
        headers == ("Content-Type" :> "application/json")
                       @@ ("Content-Length" :> ByteLength(content))
    IN  end(write(writeHead(response, status, headers), content))

----------------------------------------------------------------------------
(* The handlers of jsonResponses.js *)

success_created(request, response) ==
    respondJSON(request, response, 201, [message |-> Txt("This is a successful response")])

success(request, response) ==
    respondJSON(request, response, 200, [message |-> Txt("This is a successful response")])

\* !request.query.valid || request.query.valid !== 'true'
MissingValid(query) ==
    \/ "valid" \notin DOMAIN query
    \/ query["valid"] = ""
    \/ query["valid"] # "true"

BadRequestError ==
    [message |-> Txt("Missing valid query parameter set to true"),
     id |-> Txt("badRequest")]

badRequest_truthy(request, response) ==
    IF "valid" \notin DOMAIN request.query \/ request.query["valid"] = ""
    THEN respondJSON(request, response, 400, BadRequestError)
    ELSE respondJSON(request, response, 200,
                     [message |-> Txt("This request has the required parameters")])

badRequest_idFirst(request, response) ==
    IF MissingValid(request.query)
    THEN respondJSON(request, response, 400, BadRequestError)
    ELSE respondJSON(request, response, 200,
                     [message |-> Txt("This request has the required parameters"),
                      id |-> Txt("badRequest")])

badRequest_noReturn(request, response) ==
    IF MissingValid(request.query)
    THEN respondJSON(request,
                     respondJSON(request, response, 400, BadRequestError),
                     200, BadRequestError)
    ELSE respondJSON(request, response, 200,
                     [message |-> Txt("This request has the required parameters")])

badRequest(request, response) ==
    IF MissingValid(request.query)
    THEN respondJSON(request, response, 400, BadRequestError)
    ELSE respondJSON(request, response, 200,
                     [message |-> Txt("This request has the required parameters")])

notFound(request, response) ==
    respondJSON(request, response, 404,
                [message |-> Txt("The page you are looking for was not found."),
                 id |-> Txt("notFound")])

\* htmlResponses.js is not among the sources: the index page handler
getIndex(request, response) ==
    LET index == Txt("<!DOCTYPE html>")
        headers == ("Content-Type" :> "text/html")
    IN  end(write(writeHead(response, 200, headers), index))

----------------------------------------------------------------------------
(* new URL(request.url, base): the WHATWG parser on an http base.  The     *)
(* request URL is "/" seg1 "/" seg2 .. followed by "?" piece "&" piece ..  *)

RECURSIVE JoinSegs(_)
JoinSegs(segs) ==
    IF segs = <<>> THEN "" ELSE "/" \o Head(segs) \o JoinSegs(Tail(segs))

RECURSIVE Concat(_)
Concat(tokens) ==
    IF tokens = <<>> THEN "" ELSE Head(tokens) \o Concat(Tail(tokens))

RawPiece(piece) == piece.name \o "=" \o Concat(piece.value)

RECURSIVE JoinPieces(_)
JoinPieces(pieces) ==
    IF pieces = <<>> THEN ""
    ELSE IF Len(pieces) = 1 THEN RawPiece(Head(pieces))
    ELSE RawPiece(Head(pieces)) \o "&" \o JoinPieces(Tail(pieces))

\* the text of request.url
UrlText(segs, pieces) ==
    JoinSegs(segs) \o (IF pieces = <<>> THEN "" ELSE "?" \o JoinPieces(pieces))

\* `${request.headers.host}`: a missing header renders as "undefined"
HostText(headers) ==
    IF "host" \in DOMAIN headers THEN headers["host"] ELSE "undefined"

\* host texts the host parser rejects (empty host, unclosed IPv6 literal)
InvalidHostTexts == {"", "["}

RECURSIVE DropEmpty(_)
DropEmpty(segs) ==
    IF segs # <<>> /\ Head(segs) = "" THEN DropEmpty(Tail(segs)) ELSE segs

\* path state: "." and ".." segments are resolved, the rest kept verbatim
RECURSIVE Normalise(_, _)
Normalise(segs, path) ==
    IF segs = <<>> THEN path
    ELSE LET seg == Head(segs)
             isLast == Len(segs) = 1
             popped == IF path = <<>> THEN path ELSE SubSeq(path, 1, Len(path) - 1)
         IN  IF seg = ".."
             THEN Normalise(Tail(segs), IF isLast THEN Append(popped, "") ELSE popped)
             ELSE IF seg = "."
             THEN Normalise(Tail(segs), IF isLast THEN Append(path, "") ELSE path)
             ELSE Normalise(Tail(segs), Append(path, seg))

\* application/x-www-form-urlencoded decoding of a value: "+" is a space
RECURSIVE FormDecode(_)
FormDecode(tokens) ==
    IF tokens = <<>> THEN ""
    ELSE (IF Head(tokens) = "+" THEN " " ELSE Head(tokens)) \o FormDecode(Tail(tokens))

\* parsedUrl.searchParams: the name/value pairs in their order of appearance
RECURSIVE searchParams(_)
searchParams(pieces) ==
    IF pieces = <<>> THEN <<>>
    ELSE <<[name |-> Head(pieces).name, value |-> FormDecode(Head(pieces).value)]>>
             \o searchParams(Tail(pieces))

\* the parsed URL, or ok = FALSE where new URL throws TypeError (Invalid URL)
ParseURL(segs, pieces, base) ==
    LET authority == Len(segs) >= 2 /\ segs[1] = ""  \* the text starts with "//"
        rest == DropEmpty(segs)
        pathSegs == IF authority
                    THEN (IF Len(rest) <= 1 THEN <<"">> ELSE Tail(rest))
                    ELSE segs
    IN  IF base.host \in InvalidHostTexts \/ (authority /\ rest = <<>>)
        THEN [ok |-> FALSE, pathname |-> "", searchParams |-> <<>>]
        ELSE [ok |-> TRUE,
              pathname |-> JoinSegs(Normalise(pathSegs, <<>>)),
              searchParams |-> searchParams(pieces)]

EmptyObject == [k \in {} |-> ""]

fromEntries_firstWins(entries) ==
    [k \in {entries[i].name : i \in DOMAIN entries} |->
        entries[CHOOSE i \in DOMAIN entries :
                    /\ entries[i].name = k
                    /\ \A j \in DOMAIN entries : entries[j].name = k => i <= j].value]

\* Object.fromEntries: entries are defined in order, a later one overwrites
fromEntries(entries) ==
    [k \in {entries[i].name : i \in DOMAIN entries} |->
        entries[CHOOSE i \in DOMAIN entries :
                    /\ entries[i].name = k
                    /\ \A j \in DOMAIN entries : entries[j].name = k => j <= i].value]

----------------------------------------------------------------------------
(* The dispatcher *)

\* const urlStruct = { '/': .., '/success': .., '/badRequest': .., notFound: .. }
Routes ==
    [key \in {"/", "/success", "/badRequest", "notFound"} |->
        CASE key = "/" -> "getIndex"
          [] key = "/success" -> "success"
          [] key = "/badRequest" -> "badRequest"
          [] key = "notFound" -> "notFound"]

\* calling a handler function of the table
Invoke(handler, request, response) ==
    LET entered == [response EXCEPT !.frame = handler]
        left == CASE handler = "getIndex" -> getIndex(request, entered)
                  [] handler = "success" -> success(request, entered)
                  [] handler = "badRequest" -> badRequest(request, entered)
                  [] handler = "notFound" -> notFound(request, entered)
    IN  [left EXCEPT !.frame = "onRequest"]

Dispatch_toIndex(table, pathname) ==
    IF pathname \in DOMAIN table THEN table[pathname] ELSE table["/"]

\* if (urlStruct[parsedUrl.pathname]) .. else urlStruct.notFound
\* (a pathname starts with "/", so it meets neither the bare key notFound nor
\* a property urlStruct inherits from Object.prototype)
Dispatch(table, pathname) ==
    IF pathname \in DOMAIN table THEN table[pathname] ELSE table["notFound"]

NoExchange ==
    [outcome |-> "none", url |-> "", pieces |-> <<>>, host |-> "", pathname |-> "",
     query |-> EmptyObject, trace |-> <<>>, response |-> NewResponse]

NoCall == [state |-> "none"]

Incoming(segs, pieces, headers) ==
    [url |-> UrlText(segs, pieces), segs |-> segs, pieces |-> pieces,
     headers |-> headers, connection |-> [encrypted |-> FALSE]]

\* what one run of onRequest leaves behind
Exchange(table, incoming) ==
    LET protocol == IF incoming.connection.encrypted THEN "https" ELSE "http"
        base == [protocol |-> protocol, host |-> HostText(incoming.headers)]
        parsedUrl == ParseURL(incoming.segs, incoming.pieces, base)
        query == fromEntries(parsedUrl.searchParams)
        request == [url |-> incoming.url, headers |-> incoming.headers, query |-> query]
        handler == Dispatch(table, parsedUrl.pathname)
        response == Invoke(handler, request, NewResponse)
    IN  IF ~parsedUrl.ok
        THEN [NoExchange EXCEPT !.outcome = "threw", !.url = incoming.url,
                                !.pieces = incoming.pieces, !.host = base.host,
                                !.trace = <<[op |-> "new URL", by |-> "onRequest"]>>]
        ELSE [outcome |-> "responded", url |-> incoming.url,
              pieces |-> incoming.pieces, host |-> base.host,
              pathname |-> parsedUrl.pathname, query |-> query,
              trace |-> <<[op |-> "new URL", by |-> "onRequest"],
                          [op |-> "request.query =", by |-> "onRequest"],
                          [op |-> handler, by |-> "onRequest"]>> \o response.calls,
              response |-> response]

\* two exchanges for the same parsed path and query mapping
SameKey(a, b) ==
    /\ a.outcome = "responded"
    /\ b.outcome = "responded"
    /\ a.pathname = b.pathname
    /\ a.query = b.query

\* what the client receives of a response: status line, headers, body
Sent(response) ==
    [sent |-> TRUE, statusCode |-> response.statusCode,
     headers |-> response.headers, body |-> response.body]

NothingSent ==
    [sent |-> FALSE, statusCode |-> 0, headers |-> NoHeaders, body |-> <<>>]

onRequest_oneShot(segs, pieces, headers) ==
    /\ ~crashed
    /\ last' = Exchange(urlStruct, Incoming(segs, pieces, headers))
    /\ crashed' = (last'.outcome = "threw")
    /\ twin' = IF SameKey(last, last') THEN Sent(last.response) ELSE NothingSent
    /\ urlStruct' = [k \in DOMAIN urlStruct \ ({last'.pathname} \ {"notFound"})
                        |-> urlStruct[k]]
    /\ UNCHANGED call

onRequest(segs, pieces, headers) ==
    /\ ~crashed
    /\ last' = Exchange(urlStruct, Incoming(segs, pieces, headers))
    /\ crashed' = (last'.outcome = "threw")
    /\ twin' = IF SameKey(last, last') THEN Sent(last.response) ELSE NothingSent
    /\ UNCHANGED <<urlStruct, call>>

----------------------------------------------------------------------------
(* Inputs *)

SeqsUpTo(S, n) == UNION {[1..k -> S] : k \in 0..n}

Segments == {"success", "badRequest", "Success", "", ".."}

Paths == SeqsUpTo(Segments, MaxSegs) \ {<<>>}

\* a prefix and an extension of a registered path, and the table's bare key
ExtraPaths == {<<"succ">>, <<"successful">>, <<"notFound">>}

Values == {<<"true">>, <<"false">>, <<>>, <<"true", "+">>}

QueryPieces ==
    {[name |-> "valid", value |-> v] : v \in Values}
        \cup {[name |-> "other", value |-> <<"true">>]}

Queries == SeqsUpTo(QueryPieces, MaxPairs)

QueryPaths == {<<"badRequest">>, <<"success">>}

GoodHost == ("host" :> "localhost:3000")

Headers == {GoodHost, NoHeaders, ("host" :> ""), ("host" :> "[")}

Inputs ==
    {<<p, <<>>, GoodHost>> : p \in Paths \cup ExtraPaths}
        \cup {<<p, q, GoodHost>> : p \in QueryPaths, q \in Queries}
        \cup {<<p, <<piece>>, GoodHost>> : p \in ExtraPaths, piece \in QueryPieces}
        \cup {<<p, <<>>, h>> : p \in QueryPaths, h \in Headers}

----------------------------------------------------------------------------
(* The server: requests arrive one at a time on the event loop *)

Init ==
    /\ urlStruct = Routes
    /\ crashed = FALSE
    /\ last = NoExchange
    /\ twin = NothingSent
    /\ call = NoCall

Next == \E in \in Inputs : onRequest(in[1], in[2], in[3])

Spec == Init /\ [][Next]_vars

----------------------------------------------------------------------------
(* The response writer on its own: respondJSON applied to a drawn payload  *)

Statuses == {200, 400, 404}

Chunks ==
    {Txt("ok")[1], Chr(34)[1], Chr(10)[1], Chr(233)[1], Chr(8364)[1],
     Chr(128512)[1], Chr(55296)[1]}

Messages == SeqsUpTo(Chunks, MaxChunks)

Payloads ==
    {[message |-> m] : m \in Messages}
        \cup {[message |-> m, id |-> Txt("badRequest")] : m \in Messages}

InitWriter ==
    /\ urlStruct = Routes
    /\ crashed = FALSE
    /\ last = NoExchange
    /\ twin = NothingSent
    /\ call \in {[state |-> "ready", status |-> s, object |-> o, response |-> NewResponse] :
                    s \in Statuses, o \in Payloads}

respondJSONCall ==
    /\ call.state = "ready"
    /\ call' = [call EXCEPT !.state = "sent",
                            !.response = respondJSON(NoExchange, call.response,
                                                     call.status, call.object)]
    /\ UNCHANGED <<urlStruct, crashed, last, twin>>

NextWriter == respondJSONCall

SpecWriter == InitWriter /\ [][NextWriter]_vars

----------------------------------------------------------------------------
(* Properties *)

Responded == last.outcome = "responded"

\* the handler onRequest called in the last exchange
Called == last.trace[3].op

\* the bytes a JSON payload puts on the wire
BodyOf(object) == Utf8Encode(JSONstringify(object))

MessageTexts ==
    {Txt("This is a successful response"),
     Txt("This request has the required parameters"),
     Txt("Missing valid query parameter set to true"),
     Txt("The page you are looking for was not found.")}

HasMessageOnly(response) ==
    \E m \in MessageTexts : response.body = BodyOf([message |-> m])

HasMessageAndId(response, id) ==
    \E m \in MessageTexts : response.body = BodyOf([message |-> m, id |-> Txt(id)])

RegisteredPaths == {"/", "/success", "/badRequest"}

C2_InvalidIs400 ==
    (/\ Responded
     /\ last.pathname = "/badRequest"
     /\ ("valid" \notin DOMAIN last.query \/ last.query["valid"] # "true"))
        => /\ last.response.statusCode = 400
           /\ HasMessageAndId(last.response, "badRequest")

C2_Witness ==
    /\ Responded
    /\ last.pathname = "/badRequest"
    /\ "valid" \in DOMAIN last.query
    /\ last.query["valid"] = "false"
    /\ last.response.statusCode = 400

\* C3: a request to /badRequest whose query parameter "valid" is exactly
\* "true" is answered 200 with a body that has a message and no id.
C3_ValidIs200 ==
    (/\ Responded
     /\ last.pathname = "/badRequest"
     /\ "valid" \in DOMAIN last.query
     /\ last.query["valid"] = "true")
        => /\ last.response.statusCode = 200
           /\ HasMessageOnly(last.response)

C3_Witness ==
    /\ Responded
    /\ last.pathname = "/badRequest"
    /\ DOMAIN last.query = {"valid", "other"}
    /\ last.query["valid"] = "true"
    /\ last.response.statusCode = 200

\* C4 as stated: a request to /success is answered 200 with the message
\* "This is a successful response." (with the full stop) and no id.
C4_Original ==
    (Responded /\ last.pathname = "/success")
        => /\ last.response.statusCode = 200
           /\ last.response.body
                  = BodyOf([message |-> Txt("This is a successful response.")])

\* C4 amended: a request to /success, whatever its query, is answered 200 with
\* the message "This is a successful response" (no full stop) and no id.
C4_SuccessIs200 ==
    (Responded /\ last.pathname = "/success")
        => /\ last.response.statusCode = 200
           /\ last.response.body
                  = BodyOf([message |-> Txt("This is a successful response")])

C4_Witness ==
    /\ Responded
    /\ last.pathname = "/success"
    /\ "valid" \in DOMAIN last.query
    /\ last.response.statusCode = 200

\* C5: no request makes onRequest throw: every request ends in a finished
\* response with a status code, a JSON one on the JSON routes.
C5_NeverThrows ==
    last.outcome # "none"
        => /\ Responded
           /\ last.response.finished
           /\ last.response.statusCode \in {200, 400, 404}
           /\ (last.pathname # "/"
                  => last.response.headers["Content-Type"] = "application/json")

ValidIndexes == {i \in DOMAIN last.pieces : last.pieces[i].name = "valid"}

LastValid ==
    FormDecode(last.pieces[CHOOSE i \in ValidIndexes : \A j \in ValidIndexes : j <= i].value)

\* C6: when "valid" is repeated in the query string, the mapping keeps the last
\* value, and /badRequest answers 200 when that one is "true" and 400 otherwise.
C6_LastValueWins ==
    (Responded /\ Cardinality(ValidIndexes) >= 2)
        => /\ last.query["valid"] = LastValid
           /\ (last.pathname = "/badRequest"
                  => last.response.statusCode = IF LastValid = "true" THEN 200 ELSE 400)

C6_Witness ==
    /\ Responded
    /\ last.url = "/badRequest?valid=false&valid=true"
    /\ last.response.statusCode = 200

C8_ContentLengthIsBytes ==
    call.state = "sent"
        => /\ call.response.headers["Content-Type"] = "application/json"
           /\ call.response.headers["Content-Length"] = WireLength(call.response.body)

C8_Witness ==
    /\ call.state = "sent"
    /\ call.response.headers["Content-Length"]
           # StringLength(JSONstringify(call.object))

ResponseOps(response) == [i \in DOMAIN response.calls |-> response.calls[i].op]

\* C9: a response handled by success, badRequest or notFound gets exactly one
\* writeHead, then one write, then one end.
C9_WrittenOnce ==
    (Responded /\ Called \in {"success", "badRequest", "notFound"})
        => /\ ResponseOps(last.response) = <<"writeHead", "write", "end">>
           /\ last.response.finished

C9_Witness ==
    /\ Responded
    /\ Called = "badRequest"
    /\ last.response.statusCode = 400
    /\ Len(last.response.calls) = 3

HandlerNames == {"getIndex", "success", "badRequest", "notFound"}

CallSteps ==
    {i \in DOMAIN last.trace :
        last.trace[i].by = "onRequest" /\ last.trace[i].op \in HandlerNames}

\* C10: for every request onRequest calls exactly one handler, once, after it
\* set request.query, and every write to the response is made by that handler.
C10_OneHandler ==
    last.outcome # "none"
        => /\ Cardinality(CallSteps) = 1
           /\ \A i \in CallSteps :
                  /\ last.trace[i].op
                         = (IF last.pathname \in DOMAIN Routes
                            THEN Routes[last.pathname] ELSE "notFound")
                  /\ \E j \in 1..(i - 1) : last.trace[j].op = "request.query ="
           /\ \A i \in DOMAIN last.trace :
                  last.trace[i].op \in {"writeHead", "write", "end"}
                      => last.trace[i].by \in HandlerNames

====
